---- MODULE Spec2Model ----
(***************************************************************************)
(* Model of the tv-streams scraper (scraper/scraper.py, StreamScraper) and *)
(* of the Telegram link converter (scraper/video_converter.py,             *)
(* TelegramVideoConverter).                                                *)
(*                                                                         *)
(* A Python str is a sequence of one-character strings, so that lower(),   *)
(* strip(), split(), replace(), the `in` test and the regular expressions  *)
(* are computed character by character.  Python's None is the value None   *)
(* below, which is no character sequence.  A dict is a function whose      *)
(* DOMAIN is its key set; a dict whose order matters is a sequence of      *)
(* <<key, value>> pairs.                                                   *)
(***************************************************************************)
EXTENDS Integers, Sequences, FiniteSets, TLC

VARIABLES
    call,        \* the last call of a pure method: name, arguments, fetch outcome, result
    channels,    \* StreamScraper.channels    (channels_config['channels'])
    genres,      \* StreamScraper.genres      (channels_config.get('genres', {}))
    web,         \* what requests.get answers during this run
    streams,     \* StreamScraper.streams
    clock,       \* datetime.utcnow(): a reading returns the tick and advances it
    runs,        \* number of scrape_all calls made on this scraper
    saves,       \* number of save_outputs calls made on this scraper
    playlist,    \* playlist.m3u8 as last written by save_outputs, None before
    streams_json,\* streams.json as last written by save_outputs
    anime_data,  \* TelegramVideoConverter.anime_data
    movie_data,  \* TelegramVideoConverter.movie_data
    ret          \* the last add_anime / add_movie call: name, argument, return value

vars == <<call, channels, genres, web, streams, clock, runs, saves, playlist,
          streams_json, anime_data, movie_data, ret>>

-----------------------------------------------------------------------------
(* Python values *)

None == <<"None">>

\* bool(x) of a str or None
Truthy(x) == x # None /\ x # <<>>

Min(S) == CHOOSE m \in S : \A n \in S : m <= n

-----------------------------------------------------------------------------
(* str methods *)

\* s[i:].startswith(p), i counted from 1
StartsWithAt(s, p, i) ==
    /\ i >= 1
    /\ i + Len(p) - 1 <= Len(s)
    /\ \A k \in 1..Len(p) : s[i + k - 1] = p[k]

StartsWith(s, p) == StartsWithAt(s, p, 1)

EndsWith(s, p) == StartsWithAt(s, p, Len(s) - Len(p) + 1)

\* p in s
Contains(s, p) == \E i \in 1..(Len(s) + 1) : StartsWithAt(s, p, i)

\* s.find(p) + 1, and 0 when p is not in s
Find(s, p) ==
    LET at == {i \in 1..(Len(s) + 1) : StartsWithAt(s, p, i)}
    IN  IF at = {} THEN 0 ELSE Min(at)

UpperChars == <<"A", "B", "C", "D", "E", "F", "G", "H", "I", "J", "K", "L", "M",
                "N", "O", "P", "Q", "R", "S", "T", "U", "V", "W", "X", "Y", "Z">>
LowerChars == <<"a", "b", "c", "d", "e", "f", "g", "h", "i", "j", "k", "l", "m",
                "n", "o", "p", "q", "r", "s", "t", "u", "v", "w", "x", "y", "z">>

IsUpper(c) == \E i \in 1..Len(UpperChars) : UpperChars[i] = c
IsLower(c) == \E i \in 1..Len(LowerChars) : LowerChars[i] = c
IsCased(c) == IsUpper(c) \/ IsLower(c)
IsDigit(c) == c \in {"0", "1", "2", "3", "4", "5", "6", "7", "8", "9"}
IsSpace(c) == c \in {" ", "\t", "\n", "\r"}

LowerChar(c) ==
    IF IsUpper(c)
    THEN LowerChars[CHOOSE i \in 1..Len(UpperChars) : UpperChars[i] = c]
    ELSE c

UpperChar(c) ==
    IF IsLower(c)
    THEN UpperChars[CHOOSE i \in 1..Len(LowerChars) : LowerChars[i] = c]
    ELSE c

\* s.lower()
Lower(s) == [i \in 1..Len(s) |-> LowerChar(s[i])]

\* s.title(): a cased character is upper-cased after an uncased one (or at
\* the start) and lower-cased after a cased one
Title(s) ==
    [i \in 1..Len(s) |->
        IF i > 1 /\ IsCased(s[i - 1]) THEN LowerChar(s[i]) ELSE UpperChar(s[i])]

\* s.strip()
Strip(s) ==
    LET keep == {i \in 1..Len(s) : ~IsSpace(s[i])}
    IN  IF keep = {} THEN <<>>
        ELSE SubSeq(s, Min(keep), CHOOSE m \in keep : \A n \in keep : n <= m)

\* s.split(sep): the pieces between the non-overlapping occurrences of sep,
\* found from the left
RECURSIVE Split(_, _)
Split(s, sep) ==
    LET i == Find(s, sep)
    IN  IF i = 0 THEN <<s>>
        ELSE <<SubSeq(s, 1, i - 1)>> \o Split(SubSeq(s, i + Len(sep), Len(s)), sep)

\* s.replace(old, new)
RECURSIVE Replace(_, _, _)
Replace(s, old, new) ==
    LET i == Find(s, old)
    IN  IF i = 0 THEN s
        ELSE SubSeq(s, 1, i - 1) \o new
             \o Replace(SubSeq(s, i + Len(old), Len(s)), old, new)

\* the character classes of the regular expressions: \d, [^/] and [^"]
InClass(class, c) ==
    CASE class = "digit"     -> IsDigit(c)
      [] class = "not-slash" -> c # "/"
      [] class = "not-quote" -> c # "\""

\* the first run of characters of the class that starts at s[i]: its end
\* index (i - 1 if s[i] is not in the class)
RunEnd(s, i, class) ==
    LET stop == {k \in i..Len(s) : ~InClass(class, s[k])}
    IN  IF stop = {} THEN Len(s) ELSE Min(stop) - 1

-----------------------------------------------------------------------------
(* StreamScraper: classification and rewriting of one source URL *)

UNKNOWN        == <<"u", "n", "k", "n", "o", "w", "n">>
YOUTUBE_LIVE   == <<"y", "o", "u", "t", "u", "b", "e", "_", "l", "i", "v", "e">>
YOUTUBE_EMBED  == <<"y", "o", "u", "t", "u", "b", "e", "_", "e", "m", "b", "e", "d">>
MCASTER_IFRAME == <<"m", "c", "a", "s", "t", "e", "r", "_", "i", "f", "r", "a", "m", "e">>
STMIFY_IFRAME  == <<"s", "t", "m", "i", "f", "y", "_", "i", "f", "r", "a", "m", "e">>
DIRECT_M3U8    == <<"d", "i", "r", "e", "c", "t", "_", "m", "3", "u", "8">>
IFRAME         == <<"i", "f", "r", "a", "m", "e">>

\* the return value of a Python function that runs off its end
FallsOffEnd == None

\* the youtube branch of detect_source_type, whose inner if has no else
YoutubeKind(url_lower) ==
    IF Contains(url_lower, <<"/", "l", "i", "v", "e">>) \/ Contains(url_lower, <<"/", "c", "h", "a", "n", "n", "e", "l", "/">>)
    THEN YOUTUBE_LIVE
    ELSE IF Contains(url_lower, <<"/", "e", "m", "b", "e", "d", "/">>) \/ Contains(url_lower, <<"/", "w", "a", "t", "c", "h">>)
    THEN YOUTUBE_EMBED
    ELSE FallsOffEnd

detect_source_type(url) ==
    IF ~Truthy(url) THEN UNKNOWN
    ELSE LET url_lower == Lower(url) IN
         IF Contains(url_lower, <<"y", "o", "u", "t", "u", "b", "e", ".", "c", "o", "m">>) \/ Contains(url_lower, <<"y", "o", "u", "t", "u", ".", "b", "e">>)
         THEN YoutubeKind(url_lower)
         ELSE IF Contains(url_lower, <<"m", "c", "a", "s", "t", "e", "r", ".", "t", "v">>) THEN MCASTER_IFRAME
         ELSE IF Contains(url_lower, <<"s", "t", "m", "i", "f", "y", ".", "c", "o", "m">>)
                 \/ Contains(url_lower, <<"c", "d", "n", ".", "s", "t", "m", "i", "f", "y", ".", "c", "o", "m">>) THEN STMIFY_IFRAME
         ELSE IF EndsWith(url_lower, <<".", "m", "3", "u", "8">>) \/ Contains(url_lower, <<"m", "3", "u", "8">>)
         THEN DIRECT_M3U8
         ELSE IFRAME

\* what requests.get(video_url, ...) does: it raises, or answers with a text
Raises(exc) == [kind |-> "raise", exc |-> exc]
Answers(text) == [kind |-> "ok", text |-> text]

\* r'<key>([^"]+)"' matches at text[i]: the key is there, and after it a
\* non-empty run of non-quote characters with a quote behind it
QuotedAt(key, text, i) ==
    /\ StartsWithAt(text, key, i)
    /\ RunEnd(text, i + Len(key), "not-quote") >= i + Len(key)
    /\ RunEnd(text, i + Len(key), "not-quote") < Len(text)

\* group 1 of the match at the leftmost of the positions at, or None
QuotedGroup(key, text, at) ==
    IF at = {} THEN None
    ELSE SubSeq(text, Min(at) + Len(key),
                RunEnd(text, Min(at) + Len(key), "not-quote"))

\* re.search(r'<key>([^"]+)"', text): group 1 of the leftmost match, or None
SearchQuoted(key, text) ==
    QuotedGroup(key, text, {i \in 1..Len(text) : QuotedAt(key, text, i)})

HlsKey == <<"\"", "h", "l", "s", "M", "a", "n", "i", "f", "e", "s", "t", "U", "r", "l", "\"", ":", "\"">>
VideoIdKey == <<"\"", "v", "i", "d", "e", "o", "I", "d", "\"", ":", "\"">>
EmbedBase == <<"h", "t", "t", "p", "s", ":", "/", "/", "w", "w", "w", ".", "y", "o", "u", "t", "u", "b", "e", ".", "c", "o", "m", "/", "e", "m", "b", "e", "d", "/">>

\* lines 58-66: the video id read off the URL, or off the page for a
\* channel's live URL
VideoId(video_url, text) ==
    IF Contains(video_url, <<"/", "w", "a", "t", "c", "h", "?", "v", "=">>)
    THEN Split(Split(video_url, <<"v", "=">>)[2], <<"&">>)[1]
    ELSE IF Contains(video_url, <<"/", "e", "m", "b", "e", "d", "/">>)
    THEN Split(Split(video_url, <<"/", "e", "m", "b", "e", "d", "/">>)[2], <<"?">>)[1]
    ELSE IF Contains(video_url, <<"/", "c", "h", "a", "n", "n", "e", "l", "/">>) /\ Contains(video_url, <<"/", "l", "i", "v", "e">>)
    THEN SearchQuoted(VideoIdKey, text)
    ELSE None

\* An exception that leaves a function instead of a return value
Raised == <<"Exception">>

\* lines 68-71
EmbedUrl(video_id) ==
    IF Truthy(video_id) THEN EmbedBase \o video_id ELSE None

\* Mutation of FromPage: the id is looked for before the manifest
FromPage_IdFirst(match, video_url, text) ==
    IF Truthy(VideoId(video_url, text)) THEN EmbedUrl(VideoId(video_url, text))
    ELSE IF match # None THEN Replace(match, <<"\\", "u", "0", "0", "2", "6">>, <<"&">>)
    ELSE None

\* lines 55-71, with match the result of the search for the manifest
FromPage(match, video_url, text) ==
    IF match # None THEN Replace(match, <<"\\", "u", "0", "0", "2", "6">>, <<"&">>)
    ELSE EmbedUrl(VideoId(video_url, text))

\* lines 49-71, the body of the try: requests.get raises, or the page and
\* the URL are searched
ExtractBody(video_url, response) ==
    IF response.kind = "raise" THEN Raised
    ELSE FromPage(SearchQuoted(HlsKey, response.text), video_url, response.text)

\* Mutation of ExceptReturnsNone: no except clause
ExceptPropagates(outcome) == outcome

\* lines 48, 72-74: except Exception prints and returns None
ExceptReturnsNone(outcome) ==
    IF outcome = Raised THEN None ELSE outcome

extract_youtube_m3u8(video_url, response) ==
    ExceptReturnsNone(ExtractBody(video_url, response))

\* lines 81-84
NormaliseScheme(source_url) ==
    IF StartsWith(source_url, <<"/", "/">>) THEN <<"h", "t", "t", "p", "s", ":">> \o source_url
    ELSE IF ~StartsWith(source_url, <<"h", "t", "t", "p">>) THEN <<"h", "t", "t", "p", "s", ":", "/", "/">> \o source_url
    ELSE source_url

\* process_source fetches only for the two youtube classes
NeedsFetch(source_url) ==
    /\ Truthy(source_url)
    /\ detect_source_type(NormaliseScheme(source_url)) \in {YOUTUBE_LIVE, YOUTUBE_EMBED}

\* Mutation of ProcessedOrSource: the result of the extraction is returned
\* as it is, without `if processed else source_url`
ProcessedAsIs(processed, source_url) == processed

\* line 90; an exception leaving extract_youtube_m3u8 would leave
\* process_source too, which has no try
ProcessedOrSource(processed, source_url) ==
    IF processed = Raised THEN Raised
    ELSE IF Truthy(processed) THEN processed ELSE source_url

\* lines 86-92, with source_url scheme-normalised
ProcessNormalised(source_url, response) ==
    IF detect_source_type(source_url) \in {YOUTUBE_LIVE, YOUTUBE_EMBED}
    THEN ProcessedOrSource(extract_youtube_m3u8(source_url, response), source_url)
    ELSE source_url

process_source(source_url, response) ==
    IF ~Truthy(source_url) THEN None
    ELSE ProcessNormalised(NormaliseScheme(source_url), response)

-----------------------------------------------------------------------------
(* StreamScraper: the catalog *)

\* d.get(k, default)
Get(d, k, default) == IF k \in DOMAIN d THEN d[k] ELSE default

EmptyDict == <<>>

\* urllib.parse.quote of one character: letters, digits and _ . - ~ / stay,
\* the other ASCII characters used in the configurations become %XX
QuoteChar(c) ==
    CASE c = " " -> <<"%", "2", "0">>
      [] c = "&" -> <<"%", "2", "6">>
      [] c = "?" -> <<"%", "3", "F">>
      [] c = "=" -> <<"%", "3", "D">>
      [] c = ":" -> <<"%", "3", "A">>
      [] c = "+" -> <<"%", "2", "B">>
      [] OTHER -> <<c>>

RECURSIVE Quote(_)
Quote(s) == IF s = <<>> THEN <<>> ELSE QuoteChar(Head(s)) \o Quote(Tail(s))

LogoBase == <<"h", "t", "t", "p", "s", ":", "/", "/", "h", "e", "c", "k", "e", "r", "7", "2", "3", "6", "2", "6", ".", "g", "i", "t", "h", "u", "b", ".", "i", "o", "/", "t", "v", "-", "s", "t", "r", "e", "a", "m", "s", "/", "l", "o", "g", "o", "s", "/">>

get_logo_url(logo_filename) ==
    IF StartsWith(logo_filename, <<"h", "t", "t", "p">>) THEN logo_filename
    ELSE LogoBase \o Quote(logo_filename)

\* requests.get as process_source reaches it: the answer of the web to the
\* scheme-normalised URL
Fetch(w, source_url) ==
    IF NeedsFetch(source_url) THEN w[NormaliseScheme(source_url)] ELSE [kind |-> "none"]

\* lines 115-119: what a processed URL adds to processed_sources
SourceEntry(src_key, processed_url) ==
    IF Truthy(processed_url)
    THEN <<[key |-> src_key, url |-> processed_url,
            type |-> detect_source_type(processed_url)]>>
    ELSE <<>>

\* lines 112-119: the dict processed_sources, in insertion order.
\* extract_youtube_m3u8 lets no exception out, so process_source gives a str
\* or None here.
RECURSIVE ProcessSources(_, _)
ProcessSources(sources_dict, w) ==
    IF sources_dict = <<>> THEN <<>>
    ELSE SourceEntry(Head(sources_dict)[1],
                     process_source(Head(sources_dict)[2],
                                    Fetch(w, Head(sources_dict)[2])))
         \o ProcessSources(Tail(sources_dict), w)

\* line 125: channel.get('id', name.lower().replace(' ', '-'))
ChannelId(channel, name) == Get(channel, "id", Replace(Lower(name), <<" ">>, <<"-">>))

\* Mutation of StreamRecord: the record's url and source_type are those of the
\* last entry of the sources
StreamRecord_LastSource(channel, processed_sources, now) ==
    [id          |-> ChannelId(channel, Get(channel, "name", <<"U", "n", "k", "n", "o", "w", "n">>)),
     name        |-> Get(channel, "name", <<"U", "n", "k", "n", "o", "w", "n">>),
     logo        |-> get_logo_url(Get(channel, "logo", <<"p", "l", "a", "c", "e", "h", "o", "l", "d", "e", "r", ".", "p", "n", "g">>)),
     genre       |-> Get(channel, "genre", <<"e", "n", "t", "e", "r", "t", "a", "i", "n", "m", "e", "n", "t">>),
     url         |-> processed_sources[Len(processed_sources)].url,
     source_type |-> processed_sources[Len(processed_sources)].type,
     sources     |-> processed_sources,
     updated_at  |-> now]

\* lines 122-133: the record appended for a channel, stamped with the clock
StreamRecord(channel, processed_sources, now) ==
    [id          |-> ChannelId(channel, Get(channel, "name", <<"U", "n", "k", "n", "o", "w", "n">>)),
     name        |-> Get(channel, "name", <<"U", "n", "k", "n", "o", "w", "n">>),
     logo        |-> get_logo_url(Get(channel, "logo", <<"p", "l", "a", "c", "e", "h", "o", "l", "d", "e", "r", ".", "p", "n", "g">>)),
     genre       |-> Get(channel, "genre", <<"e", "n", "t", "e", "r", "t", "a", "i", "n", "m", "e", "n", "t">>),
     url         |-> processed_sources[1].url,
     source_type |-> processed_sources[1].type,
     sources     |-> processed_sources,
     updated_at  |-> now]

\* lines 121-138: the catalog and the clock after a channel whose sources
\* were processed
AppendIfAny(channel, processed_sources, st) ==
    IF processed_sources # <<>>
    THEN [streams |-> Append(st.streams,
                             StreamRecord(channel, processed_sources, st.clock)),
          clock   |-> st.clock + 1]
    ELSE st

\* lines 103-138, one pass of the loop body: the catalog and the clock after
\* the channel
ScrapeChannel(channel, w, st) ==
    IF Get(channel, "sources", EmptyDict) = EmptyDict THEN st
    ELSE AppendIfAny(channel, ProcessSources(channel.sources, w), st)

\* Mutation of ScrapeLoop: a channel without sources ends the loop (break for
\* continue)
RECURSIVE ScrapeLoop_Break(_, _, _)
ScrapeLoop_Break(chs, w, st) ==
    IF chs = <<>> \/ Get(Head(chs), "sources", EmptyDict) = EmptyDict THEN st
    ELSE ScrapeLoop_Break(Tail(chs), w, ScrapeChannel(Head(chs), w, st))

\* line 102: the loop over self.channels; st is self.streams and the clock
RECURSIVE ScrapeLoop(_, _, _)
ScrapeLoop(chs, w, st) ==
    IF chs = <<>> THEN st
    ELSE ScrapeLoop(Tail(chs), w, ScrapeChannel(Head(chs), w, st))

\* line 148
GenreName(gs, stream) ==
    Get(Get(gs, stream.genre, EmptyDict), "name", Title(stream.genre))

\* lines 149-153: what one stream adds to the playlist
M3u8Entry(gs, stream) ==
    <<"#", "E", "X", "T", "I", "N", "F", ":", "-", "1", " ", "t", "v", "g", "-", "i", "d", "=", "\"">> \o stream.id \o <<"\"", " ">>
    \o <<"t", "v", "g", "-", "n", "a", "m", "e", "=", "\"">> \o stream.name \o <<"\"", " ">>
    \o <<"t", "v", "g", "-", "l", "o", "g", "o", "=", "\"">> \o stream.logo \o <<"\"", " ">>
    \o <<"g", "r", "o", "u", "p", "-", "t", "i", "t", "l", "e", "=", "\"">> \o GenreName(gs, stream) \o <<"\"", ",">> \o stream.name \o <<"\n">>
    \o stream.url \o <<"\n">>

\* Mutation of M3u8Loop: the genre key itself stands for a genre that is
\* not configured, and no name is looked up
RECURSIVE M3u8Loop_RawGenre(_, _, _)
M3u8Loop_RawGenre(ss, gs, m3u8_content) ==
    IF ss = <<>> THEN m3u8_content
    ELSE M3u8Loop_RawGenre(Tail(ss), gs,
             m3u8_content
             \o <<"#", "E", "X", "T", "I", "N", "F", ":", "-", "1", " ", "t", "v", "g", "-", "i", "d", "=", "\"">> \o Head(ss).id \o <<"\"", " ">>
             \o <<"t", "v", "g", "-", "n", "a", "m", "e", "=", "\"">> \o Head(ss).name \o <<"\"", " ">>
             \o <<"t", "v", "g", "-", "l", "o", "g", "o", "=", "\"">> \o Head(ss).logo \o <<"\"", " ">>
             \o <<"g", "r", "o", "u", "p", "-", "t", "i", "t", "l", "e", "=", "\"">> \o Head(ss).genre \o <<"\"", ",">> \o Head(ss).name \o <<"\n">>
             \o Head(ss).url \o <<"\n">>)

\* lines 147-153: the loop over self.streams
RECURSIVE M3u8Loop(_, _, _)
M3u8Loop(ss, gs, m3u8_content) ==
    IF ss = <<>> THEN m3u8_content
    ELSE M3u8Loop(Tail(ss), gs, m3u8_content \o M3u8Entry(gs, Head(ss)))

generate_m3u8(ss, gs) == M3u8Loop(ss, gs, <<"#", "E", "X", "T", "M", "3", "U", "\n">>)

-----------------------------------------------------------------------------
(* TelegramVideoConverter.convert_telegram_link *)

\* None where a dict is expected
NoneDict == [none |-> TRUE]
IsNoneDict(d) == "none" \in DOMAIN d

\* re.search(prefix ([^/]+ or \d+) / (\d+), text) at position i: the groups
\* of the match starting at text[i], or NoneDict.  Each group is the whole
\* run of its class: a shorter one would be followed by a character of the
\* class, where the pattern wants '/' (or nothing more).
MatchAt(prefix, first, text, i) ==
    LET j  == i + Len(prefix)
        e1 == RunEnd(text, j, first)
        e2 == RunEnd(text, e1 + 2, "digit")
    IN  IF /\ StartsWithAt(text, prefix, i)
           /\ e1 >= j
           /\ e1 < Len(text)
           /\ text[e1 + 1] = "/"
           /\ e2 >= e1 + 2
        THEN [channel |-> SubSeq(text, j, e1), post_id |-> SubSeq(text, e1 + 2, e2)]
        ELSE NoneDict

\* the match at the leftmost of the positions at, or NoneDict
LeftmostMatch(prefix, first, text, at) ==
    IF at = {} THEN NoneDict ELSE MatchAt(prefix, first, text, Min(at))

\* re.search: the match at the leftmost position that has one
Search(prefix, first, text) ==
    LeftmostMatch(prefix, first, text,
        {i \in 1..Len(text) : ~IsNoneDict(MatchAt(prefix, first, text, i))})

\* lines 37-41, in the order of the list
PublicPost(text)   == Search(<<"t", ".", "m", "e", "/">>, "not-slash", text)
PrivatePost(text)  == Search(<<"t", ".", "m", "e", "/", "c", "/">>, "digit", text)
TelegramMe(text)   == Search(<<"t", "e", "l", "e", "g", "r", "a", "m", ".", "m", "e", "/">>, "not-slash", text)

\* lines 43-45: a pattern that matches ends the loop over the patterns
OrElseMatch(match, later) == IF ~IsNoneDict(match) THEN match ELSE later

\* lines 43-47: the first pattern of the list that matches decides
FirstMatch(text) ==
    OrElseMatch(PublicPost(text), OrElseMatch(PrivatePost(text), TelegramMe(text)))

TELEGRAM_EMBED == <<"t", "e", "l", "e", "g", "r", "a", "m", "_", "e", "m", "b", "e", "d">>
DIRECT_VIDEO   == <<"d", "i", "r", "e", "c", "t", "_", "v", "i", "d", "e", "o">>
TmeBase        == <<"h", "t", "t", "p", "s", ":", "/", "/", "t", ".", "m", "e", "/">>
EmbedQuery     == <<"?", "e", "m", "b", "e", "d", "=", "1", "&", "m", "o", "d", "e", "=", "t", "m", "e">>

\* lines 50-55
TelegramRecord(link, m) ==
    [original    |-> link,
     embed_url   |-> TmeBase \o m.channel \o <<"/">> \o m.post_id \o EmbedQuery,
     preview_url |-> TmeBase \o m.channel \o <<"/">> \o m.post_id,
     type        |-> TELEGRAM_EMBED]

\* Mutation of IsDirectVideo: the extension is looked for in the link as
\* written, without lower()
IsDirectVideo_CaseSensitive(link) ==
    /\ StartsWith(link, <<"h", "t", "t", "p">>)
    /\ \E ext \in {<<".", "m", "p", "4">>, <<".", "m", "k", "v">>, <<".", "a", "v", "i">>} : Contains(link, ext)

\* line 58
IsDirectVideo(link) ==
    /\ StartsWith(link, <<"h", "t", "t", "p">>)
    /\ \E ext \in {<<".", "m", "p", "4">>, <<".", "m", "k", "v">>, <<".", "a", "v", "i">>} : Contains(Lower(link), ext)

\* lines 45-66, with m the first match of the patterns in the link
Converted(link, m) ==
    IF ~IsNoneDict(m) THEN TelegramRecord(link, m)
    ELSE IF IsDirectVideo(link)
    THEN [original |-> link, embed_url |-> link, preview_url |-> link,
          type |-> DIRECT_VIDEO]
    ELSE NoneDict

\* Mutation of Clean: the link is not stripped
Unclean(tg_link) == tg_link

\* line 34
Clean(tg_link) == Strip(tg_link)

\* lines 36-66, with link the cleaned link
ConvertClean(link) == Converted(link, FirstMatch(link))

\* lines 30-66
convert_telegram_link(tg_link) ==
    IF ~Truthy(tg_link) THEN NoneDict ELSE ConvertClean(Clean(tg_link))

-----------------------------------------------------------------------------
(* TelegramVideoConverter.add_anime and add_movie *)

\* d[k] = v on a dict
With(d, k, v) == [f \in DOMAIN d \cup {k} |-> IF f = k THEN v ELSE d[f]]

\* the video_url and video_type that a converted link gives its holder
WithVideo(d, converted) ==
    With(With(d, "video_url", converted.embed_url), "video_type", converted.type)

\* Mutation of HasAll: any(...) for all(...)
HasAny(d, required) == required \cap DOMAIN d # {}

\* lines 95 and 138: all(field in d for field in required)
HasAll(d, required) == required \subseteq DOMAIN d

\* lines 104-106, 109-111, 144-146: a link that was converted gives its
\* holder video_url and video_type
WithConverted(d, converted) ==
    IF ~IsNoneDict(converted) THEN WithVideo(d, converted) ELSE d

\* lines 102-106
ConvertEpisode(episode) ==
    IF "telegram_link" \in DOMAIN episode
    THEN WithConverted(episode, convert_telegram_link(episode.telegram_link))
    ELSE episode

\* lines 100-111
ConvertAnime(entry) ==
    IF Get(entry, "type", None) = <<"s", "e", "r", "i", "e", "s">> /\ "episodes" \in DOMAIN entry
    THEN With(entry, "episodes",
              [i \in 1..Len(entry.episodes) |-> ConvertEpisode(entry.episodes[i])])
    ELSE IF Get(entry, "type", None) = <<"s", "t", "a", "n", "d", "a", "l", "o", "n", "e">> /\ "telegram_link" \in DOMAIN entry
    THEN WithConverted(entry, convert_telegram_link(entry.telegram_link))
    ELSE entry

\* lines 92-120: the return value, self.anime_data and the clock after the
\* call.  The print of line 115 reads entry['name'] after the append; a
\* KeyError there is caught by line 118.
add_anime(entry, data, now) ==
    IF ~HasAll(entry, {"id", "name", "type"})
    THEN [value |-> FALSE, data |-> data, clock |-> now]
    ELSE [value |-> "name" \in DOMAIN entry,
          data  |-> Append(data, With(ConvertAnime(entry), "updated_at", now)),
          clock |-> now + 1]

\* lines 143-153, with converted the conversion of the entry's link.  The
\* prints of lines 148 and 152 read entry['name'], the first before the
\* append and the second after it.
AppendMovie(entry, converted, data, now) ==
    IF "name" \notin DOMAIN entry /\ IsNoneDict(converted)
    THEN [value |-> FALSE, data |-> data, clock |-> now]
    ELSE [value |-> "name" \in DOMAIN entry,
          data  |-> Append(data, With(WithConverted(entry, converted),
                                      "updated_at", now)),
          clock |-> now + 1]

\* lines 136-157: the return value, self.movie_data and the clock after the
\* call
add_movie(entry, data, now) ==
    IF ~HasAll(entry, {"id", "name", "type", "telegram_link"})
    THEN [value |-> FALSE, data |-> data, clock |-> now]
    ELSE AppendMovie(entry, convert_telegram_link(entry.telegram_link), data, now)

-----------------------------------------------------------------------------
(* Inputs *)

\* all concatenations of at most n members of the set parts
RECURSIVE Concats(_, _)
Concats(parts, n) ==
    IF n = 0 THEN {<<>>}
    ELSE LET shorter == Concats(parts, n - 1)
         IN  shorter \cup {s \o p : s \in shorter, p \in parts}

MaxSegs == 2        \* path segments after the host of a source URL
MaxLinkParts == 4   \* parts of a Telegram link

Schemes == {<<>>, <<"/", "/">>, <<"h", "t", "t", "p", "s", ":", "/", "/">>, <<"h", "t", "t", "p", ":", "/", "/">>}
Hosts == {<<"w", "w", "w", ".", "Y", "o", "u", "T", "u", "b", "e", ".", "c", "o", "m">>, <<"y", "o", "u", "t", "u", ".", "b", "e", "/", "X", "y", "1">>, <<"m", "c", "a", "s", "t", "e", "r", ".", "t", "v">>, <<"c", "d", "n", ".", "s", "t", "m", "i", "f", "y", ".", "c", "o", "m">>,
          <<"x", ".", "t", "v">>}
Segs == {<<"/", "w", "a", "t", "c", "h", "?", "v", "=">>, <<"/", "e", "m", "b", "e", "d", "/">>, <<"/", "c", "h", "a", "n", "n", "e", "l", "/">>, <<"/", "l", "i", "v", "e">>, <<"a", "b">>, <<"&", "t", "=", "1">>,
         <<"?", "s">>, <<".", "M", "3", "U", "8">>}

Urls == {s \o h \o p : s \in Schemes, h \in Hosts, p \in Concats(Segs, MaxSegs)}

\* the pages requests.get may answer with, and the ways it may fail
Pages == {<<>>,
          <<"<", "h", "t", "m", "l", ">">>,
          HlsKey \o <<"h", "t", "t", "p", "s", ":", "/", "/", "m", "/", "a", ".", "m", "3", "u", "8">> \o <<"\"">>,
          HlsKey \o <<"h", "t", "t", "p", "s", ":", "/", "/", "m", "/", "a", "?", "x", "=", "1", "\\", "u", "0", "0", "2", "6", "y", "=", "2", "\\", "u", "0", "0", "2", "6", "z">> \o <<"\"", ",">>,
          HlsKey \o <<"\"">>,
          HlsKey \o <<"h", "t", "t", "p", "s", ":", "/", "/", "m", "/", "a">>,
          VideoIdKey \o <<"Z", "z", "9">> \o <<"\"">>,
          VideoIdKey \o <<"\"", ",">> \o VideoIdKey \o <<"Y", "y", "8">> \o <<"\"", "}">>,
          <<"{">> \o VideoIdKey \o <<"Z", "z", "9">> \o <<"\"", ",">> \o HlsKey \o <<"h", "t", "t", "p", "s", ":", "/", "/", "m", "/", "b">> \o <<"\"", "}">>,
          HlsKey \o <<"\"">> \o HlsKey \o <<"h", "1">> \o <<"\"">> \o HlsKey \o <<"h", "2">> \o <<"\"">>}

Responses == {Raises("Timeout"), Raises("ConnectionError")}
             \cup {Answers(t) : t \in Pages}

NoFetch == [kind |-> "none"]

LinkParts == {<<"t", ".", "m", "e", "/">>, <<"t", "e", "l", "e", "g", "r", "a", "m", ".", "m", "e", "/">>, <<"c", "/">>, <<"a", "b", "/">>, <<"7", "/">>, <<"4", "2">>, <<" ">>,
              <<"h", "t", "t", "p", ":", "/", "/", "v", ".", "M", "P", "4">>}

Links == Concats(LinkParts, MaxLinkParts)

-----------------------------------------------------------------------------
(* The methods that read no state of their object.  A behaviour applies one *)
(* of them to one input.                                                   *)

NoCall == [op |-> "none"]

DetectSourceType ==
    /\ call = NoCall
    /\ \E url \in Urls \cup {<<>>, None} :
          call' = [op |-> "detect_source_type", arg |-> url,
                   ret |-> detect_source_type(url)]
    /\ UNCHANGED <<channels, genres, web, streams, clock, runs, saves, playlist,
                   streams_json, anime_data, movie_data, ret>>

ExtractYoutubeM3u8 ==
    /\ call = NoCall
    /\ \E url \in Urls, r \in Responses :
          call' = [op |-> "extract_youtube_m3u8", arg |-> url, response |-> r,
                   ret |-> extract_youtube_m3u8(url, r)]
    /\ UNCHANGED <<channels, genres, web, streams, clock, runs, saves, playlist,
                   streams_json, anime_data, movie_data, ret>>

ProcessSource ==
    /\ call = NoCall
    /\ \E url \in Urls \cup {<<>>, None} :
          \E r \in (IF NeedsFetch(url) THEN Responses ELSE {NoFetch}) :
             call' = [op |-> "process_source", arg |-> url, response |-> r,
                      ret |-> process_source(url, r)]
    /\ UNCHANGED <<channels, genres, web, streams, clock, runs, saves, playlist,
                   streams_json, anime_data, movie_data, ret>>

ConvertTelegramLink ==
    /\ call = NoCall
    /\ \E link \in Links \cup {None} :
          call' = [op |-> "convert_telegram_link", arg |-> link,
                   ret |-> convert_telegram_link(link)]
    /\ UNCHANGED <<channels, genres, web, streams, clock, runs, saves, playlist,
                   streams_json, anime_data, movie_data, ret>>

InitFn ==
    /\ call = NoCall
    /\ channels = <<>>
    /\ genres = <<>>
    /\ web = NoFetch
    /\ streams = <<>>
    /\ clock = 0
    /\ runs = 0
    /\ saves = 0
    /\ playlist = None
    /\ streams_json = NoneDict
    /\ anime_data = <<>>
    /\ movie_data = <<>>
    /\ ret = NoCall

NextFn == DetectSourceType \/ ExtractYoutubeM3u8 \/ ProcessSource \/ ConvertTelegramLink

SpecFn == InitFn /\ [][NextFn]_vars

-----------------------------------------------------------------------------
(* One StreamScraper: construction, scrape_all, save_outputs *)

MaxChannels == 2   \* channels of a configuration
MaxRuns == 2       \* scrape_all calls on one scraper
MaxSaves == 2      \* save_outputs calls on one scraper

\* entries of channels.json: with and without id, logo, genre and sources;
\* sources that are absent, empty, all empty, partly empty
ChannelPool ==
    {[id |-> <<"b", "b", "c">>, name |-> <<"B", "B", "C", " ", "N", "e", "w", "s">>, logo |-> <<"b", "b", "c", " ", "n", "e", "w", "s", ".", "p", "n", "g">>,
      genre |-> <<"n", "e", "w", "s">>,
      sources |-> << <<<<"m", "a", "i", "n">>, <<"h", "t", "t", "p", "s", ":", "/", "/", "w", "w", "w", ".", "y", "o", "u", "t", "u", "b", "e", ".", "c", "o", "m", "/", "w", "a", "t", "c", "h", "?", "v", "=", "a", "b", "&", "t", "=", "1">>>>,
                     <<<<"b", "a", "c", "k", "u", "p">>, <<"/", "/", "x", ".", "t", "v", "/", "a", ".", "m", "3", "u", "8">>>> >>],
     [name |-> <<"R", "o", "c", "k", " ", "T", "V">>, logo |-> <<"h", "t", "t", "p", ":", "/", "/", "l", "/", "r", ".", "p", "n", "g">>, genre |-> <<"r", "o", "c", "k", "-", "m", "u", "s", "i", "c">>,
      sources |-> << <<<<"a">>, <<>> >>, <<<<"b">>, <<"m", "c", "a", "s", "t", "e", "r", ".", "t", "v", "/", "r">>>> >>],
     [id |-> <<"y", "t">>, name |-> <<"L", "i", "v", "e">>,
      sources |-> << <<<<"y", "t">>, <<"y", "o", "u", "t", "u", "b", "e", ".", "c", "o", "m", "/", "c", "h", "a", "n", "n", "e", "l", "/", "U", "C", "/", "l", "i", "v", "e">>>> >>],
     [id |-> <<"o", "f", "f">>, name |-> <<"O", "f", "f", " ", "A", "i", "r">>, genre |-> <<"n", "e", "w", "s">>],
     [id |-> <<"n", "i", "l">>, name |-> <<"N", "i", "l">>, sources |-> <<>>],
     [id |-> <<"g", "a", "p">>, name |-> <<"G", "a", "p">>, genre |-> <<"n", "e", "w", "s">>,
      sources |-> << <<<<"a">>, <<>> >>, <<<<"b">>, None>> >>]}

\* all sequences of at most n members of the set S
RECURSIVE SeqsUpTo(_, _)
SeqsUpTo(S, n) ==
    IF n = 0 THEN {<<>>}
    ELSE LET shorter == SeqsUpTo(S, n - 1)
         IN  shorter \cup {Append(q, x) : q \in shorter, x \in S}

\* the 'genres' object of channels.json: absent, or naming some genres
GenreConfigs ==
    {EmptyDict,
     [g \in {<<"n", "e", "w", "s">>, <<"r", "o", "c", "k", "-", "m", "u", "s", "i", "c">>} |->
         IF g = <<"n", "e", "w", "s">> THEN [name |-> <<"W", "o", "r", "l", "d", " ", "N", "e", "w", "s">>, icon |-> <<"N">>]
         ELSE [icon |-> <<"R">>]]}

\* the URLs of the pool that process_source fetches
FetchUrls ==
    {NormaliseScheme(src[2]) :
        src \in {x \in UNION {{c.sources[i] : i \in 1..Len(c.sources)} :
                      c \in {d \in ChannelPool : "sources" \in DOMAIN d}} :
                    NeedsFetch(x[2])}}

HlsPage == HlsKey \o <<"h", "t", "t", "p", "s", ":", "/", "/", "m", "/", "l", "i", "v", "e", ".", "m", "3", "u", "8", "?", "a", "=", "1", "\\", "u", "0", "0", "2", "6", "b", "=", "2">> \o <<"\"">>
VideoIdPage == <<"{">> \o VideoIdKey \o <<"Z", "z", "9">> \o <<"\"", "}">>

\* the web during a run: every fetch fails, every page carries a manifest,
\* every page carries only a video id, or only the watch pages answer
Webs ==
    {[u \in FetchUrls |-> r] :
        r \in {Raises("Timeout"), Answers(HlsPage), Answers(VideoIdPage)}}
    \cup {[u \in FetchUrls |->
              IF Contains(u, <<"/", "w", "a", "t", "c", "h">>) THEN Answers(<<"<", "h", "t", "m", "l", ">">>)
              ELSE Raises("ConnectionError")]}

\* StreamScraper(channels_config), lines 10-15
Init ==
    /\ call = NoCall
    /\ channels \in SeqsUpTo(ChannelPool, MaxChannels)
    /\ genres \in GenreConfigs
    /\ web \in Webs
    /\ streams = <<>>
    /\ clock = 0
    /\ runs = 0
    /\ saves = 0
    /\ playlist = None
    /\ streams_json = NoneDict
    /\ anime_data = <<>>
    /\ movie_data = <<>>
    /\ ret = NoCall

\* the end of scrape_all: self.streams and the clock are as the loop left them
ScrapeDone(end) ==
    /\ streams' = end.streams
    /\ clock' = end.clock

\* scrape_all, lines 94-141
ScrapeAll ==
    /\ runs < MaxRuns
    /\ ScrapeDone(ScrapeLoop(channels, web, [streams |-> streams, clock |-> clock]))
    /\ runs' = runs + 1
    /\ UNCHANGED <<call, channels, genres, web, saves, playlist, streams_json,
                   anime_data, movie_data, ret>>

\* save_outputs, lines 157-177: playlist.m3u8 and streams.json (index.html,
\* a rendering of the same list, is not kept)
SaveOutputs ==
    /\ saves < MaxSaves
    /\ playlist' = generate_m3u8(streams, genres)
    /\ streams_json' = [last_updated  |-> clock,
                        total_streams |-> Len(streams),
                        genres        |-> genres,
                        streams       |-> streams]
    /\ clock' = clock + 1
    /\ saves' = saves + 1
    /\ UNCHANGED <<call, channels, genres, web, streams, runs,
                   anime_data, movie_data, ret>>

Next == ScrapeAll \/ SaveOutputs

Spec == Init /\ [][Next]_vars

-----------------------------------------------------------------------------
(* One TelegramVideoConverter: construction, add_anime, add_movie *)

MaxItems == 2   \* calls of add_anime, and of add_movie, on one converter

Episodes == <<[number |-> 1, title |-> <<"P", "i", "l", "o", "t">>, telegram_link |-> <<"t", ".", "m", "e", "/", "a", "n", "i", "m", "e", "/", "1", "0", "0", "1">>],
              [number |-> 2, title |-> <<"T", "w", "o">>],
              [number |-> 3, title |-> <<"T", "h", "r", "e", "e">>, telegram_link |-> <<"s", "o", "o", "n">>]>>

\* entries as the callers write them: complete ones, and ones that lack a
\* field
Entries ==
    {[id |-> <<"o", "n", "e", "-", "p", "i", "e", "c", "e">>, name |-> <<"O", "n", "e", " ", "P", "i", "e", "c", "e">>, type |-> <<"s", "e", "r", "i", "e", "s">>,
      episodes |-> Episodes],
     [id |-> <<"a", "k", "i", "r", "a">>, name |-> <<"A", "k", "i", "r", "a">>, type |-> <<"s", "t", "a", "n", "d", "a", "l", "o", "n", "e">>,
      telegram_link |-> <<"h", "t", "t", "p", "s", ":", "/", "/", "v", "/", "a", "k", "i", "r", "a", ".", "M", "K", "V">>],
     [id |-> <<"i", "n", "c", "e", "p", "t", "i", "o", "n">>, name |-> <<"I", "n", "c", "e", "p", "t", "i", "o", "n">>, type |-> <<"s", "t", "a", "n", "d", "a", "l", "o", "n", "e">>,
      telegram_link |-> <<" ", "t", ".", "m", "e", "/", "m", "o", "v", "i", "e", "s", "/", "5", "0", "0", "1">>],
     [id |-> <<"l", "o", "s", "t">>, name |-> <<"L", "o", "s", "t">>, type |-> <<"s", "t", "a", "n", "d", "a", "l", "o", "n", "e">>,
      telegram_link |-> <<"n", "/", "a">>],
     [id |-> <<"o", "v", "a">>, name |-> <<"O", "v", "a">>, type |-> <<"s", "p", "e", "c", "i", "a", "l">>],
     [name |-> <<"N", "o", " ", "I", "d">>, type |-> <<"s", "e", "r", "i", "e", "s">>, episodes |-> Episodes],
     [id |-> <<"n", "o", "-", "n", "a", "m", "e">>, type |-> <<"s", "t", "a", "n", "d", "a", "l", "o", "n", "e">>, telegram_link |-> <<"t", ".", "m", "e", "/", "x", "/", "1">>],
     [id |-> <<"n", "o", "-", "t", "y", "p", "e">>, name |-> <<"N", "o", " ", "T", "y", "p", "e">>, telegram_link |-> <<"t", ".", "m", "e", "/", "x", "/", "2">>],
     [telegram_link |-> <<"t", ".", "m", "e", "/", "x", "/", "3">>],
     [id |-> <<"o", "n", "l", "y", "-", "i", "d">>]}

\* TelegramVideoConverter(), lines 16-20
InitConv ==
    /\ call = NoCall
    /\ channels = <<>>
    /\ genres = <<>>
    /\ web = NoFetch
    /\ streams = <<>>
    /\ clock = 0
    /\ runs = 0
    /\ saves = 0
    /\ playlist = None
    /\ streams_json = NoneDict
    /\ anime_data = <<>>
    /\ movie_data = <<>>
    /\ ret = NoCall

\* the end of an add_anime call
AnimeDone(entry, end) ==
    /\ anime_data' = end.data
    /\ clock' = end.clock
    /\ ret' = [op |-> "add_anime", arg |-> entry, value |-> end.value]

\* the end of an add_movie call
MovieDone(entry, end) ==
    /\ movie_data' = end.data
    /\ clock' = end.clock
    /\ ret' = [op |-> "add_movie", arg |-> entry, value |-> end.value]

AddAnime ==
    /\ Len(anime_data) < MaxItems
    /\ \E entry \in Entries :
          AnimeDone(entry, add_anime(entry, anime_data, clock))
    /\ UNCHANGED <<call, channels, genres, web, streams, runs, saves, playlist,
                   streams_json, movie_data>>

AddMovie ==
    /\ Len(movie_data) < MaxItems
    /\ \E entry \in Entries :
          MovieDone(entry, add_movie(entry, movie_data, clock))
    /\ UNCHANGED <<call, channels, genres, web, streams, runs, saves, playlist,
                   streams_json, anime_data>>

NextConv == AddAnime \/ AddMovie

SpecConv == InitConv /\ [][NextConv]_vars

-----------------------------------------------------------------------------
(* Properties of the stateless methods, under SpecFn *)

IsYoutubeClass(t) == t \in {YOUTUBE_LIVE, YOUTUBE_EMBED}

\* C1: for every non-empty source URL process_source returns a non-empty URL
\* and never None; when the scheme-normalised URL is classified youtube_live
\* or youtube_embed and the extraction yields nothing (no pattern matched, or
\* the fetch raised) the result is the scheme-normalised URL, and for every
\* other classification the result is the scheme-normalised URL.
C1_GracefulFallback ==
    (call.op = "process_source" /\ Truthy(call.arg)) =>
        LET url == NormaliseScheme(call.arg)
            source_type == detect_source_type(url)
        IN  /\ call.ret # None
            /\ call.ret # Raised
            /\ call.ret # <<>>
            /\ (IsYoutubeClass(source_type) /\ call.response.kind = "raise")
                  => call.ret = url
            /\ (IsYoutubeClass(source_type)
                /\ extract_youtube_m3u8(url, call.response) = None)
                  => call.ret = url
            /\ ~IsYoutubeClass(source_type) => call.ret = url

\* C1 witness: a youtube URL written without scheme, whose fetch raised, came
\* back with https:// put before it.
C1_Witness ==
    /\ call.op = "process_source"
    /\ Truthy(call.arg)
    /\ call.response.kind = "raise"
    /\ call.ret = <<"h", "t", "t", "p", "s", ":", "/", "/">> \o call.arg

Labels == {UNKNOWN, YOUTUBE_LIVE, YOUTUBE_EMBED, MCASTER_IFRAME, STMIFY_IFRAME,
           DIRECT_M3U8, IFRAME}

\* C2: detect_source_type returns one of the seven labels for every URL, and
\* 'unknown' exactly when the URL is empty or None.
C2_EveryUrlClassified ==
    call.op = "detect_source_type" =>
        /\ call.ret \in Labels
        /\ (call.ret = UNKNOWN <=> ~Truthy(call.arg))

\* the links  prefix channel / post  found in text, channel a non-empty run
\* of characters of the class first and post a whole run of digits
Occurrences(prefix, first, text) ==
    LET n == Len(text)
        Starts == {j \in 1..n : StartsWithAt(text, prefix, j - Len(prefix))}
        Slashes(j) == {k \in (j + 1)..n :
                          text[k] = "/" /\ \A x \in j..(k - 1) : InClass(first, text[x])}
        Ends(k) == {e \in (k + 1)..n :
                       /\ \A x \in (k + 1)..e : IsDigit(text[x])
                       /\ (e = n \/ ~IsDigit(text[e + 1]))}
    IN  UNION {UNION {{[channel |-> SubSeq(text, j, k - 1),
                        post_id |-> SubSeq(text, k + 1, e)] : e \in Ends(k)}
                      : k \in Slashes(j)}
               : j \in Starts}

PostUrl(m) == <<"h", "t", "t", "p", "s", ":", "/", "/", "t", ".", "m", "e", "/">> \o m.channel \o <<"/">> \o m.post_id

\* C3: for a link containing t.me/c/<A>/<B>, A and B digit strings, the
\* result is a telegram_embed built from channel A and post B:
\* preview_url = https://t.me/A/B, embed_url = preview_url?embed=1&mode=tme.
C3_PrivateChannelForm ==
    (call.op = "convert_telegram_link" /\ call.arg # None) =>
        LET private == Occurrences(<<"t", ".", "m", "e", "/", "c", "/">>, "digit", call.arg)
        IN  private # {} =>
                /\ ~IsNoneDict(call.ret)
                /\ call.ret.type = TELEGRAM_EMBED
                /\ \E m \in private :
                      /\ call.ret.preview_url = PostUrl(m)
                      /\ call.ret.embed_url = PostUrl(m) \o <<"?", "e", "m", "b", "e", "d", "=", "1", "&", "m", "o", "d", "e", "=", "t", "m", "e">>

C5_DirectVideoOrNone ==
    call.op = "convert_telegram_link" =>
        IF call.arg = None \/ call.arg = <<>> THEN IsNoneDict(call.ret)
        ELSE LET link == Strip(call.arg)
                 posts == Occurrences(<<"t", ".", "m", "e", "/">>, "not-slash", link)
                          \cup Occurrences(<<"t", ".", "m", "e", "/", "c", "/">>, "digit", link)
                          \cup Occurrences(<<"t", "e", "l", "e", "g", "r", "a", "m", ".", "m", "e", "/">>, "not-slash", link)
                 video == /\ StartsWith(link, <<"h", "t", "t", "p">>)
                          /\ \E ext \in {<<".", "m", "p", "4">>, <<".", "m", "k", "v">>, <<".", "a", "v", "i">>} :
                                Contains(Lower(link), ext)
             IN  posts = {} =>
                    IF video
                    THEN /\ ~IsNoneDict(call.ret)
                         /\ call.ret.type = DIRECT_VIDEO
                         /\ call.ret.embed_url = link
                         /\ call.ret.preview_url = link
                         /\ call.ret.original = link
                    ELSE IsNoneDict(call.ret)

\* C5 witness: a direct link to a file whose extension is in capitals, given
\* with a leading blank, came back as a direct_video.
C5_Witness ==
    /\ call.op = "convert_telegram_link"
    /\ call.arg = <<" ", "h", "t", "t", "p", ":", "/", "/", "v", ".", "M", "P", "4">>
    /\ ~IsNoneDict(call.ret)
    /\ call.ret.type = DIRECT_VIDEO
    /\ call.ret.embed_url = <<"h", "t", "t", "p", ":", "/", "/", "v", ".", "M", "P", "4">>

\* C10: extract_youtube_m3u8 lets no exception out: whatever the URL and
\* whatever the fetch does, it returns a non-empty URL string or None, and
\* it returns None whenever the fetch raises.
C10_NoExceptionEscapes ==
    call.op = "extract_youtube_m3u8" =>
        /\ call.ret # Raised
        /\ call.ret # <<>>
        /\ call.response.kind = "raise" => call.ret = None

\* C10 witness: a fetch timed out and the call returned None.
C10_Witness ==
    /\ call.op = "extract_youtube_m3u8"
    /\ call.response = Raises("Timeout")
    /\ call.ret = None

\* the text of s after the first occurrence of sep, which s contains
AfterFirst(s, sep) == SubSeq(s, Find(s, sep) + Len(sep), Len(s))

\* the text of s before the first of the positions at, and all of s when
\* there is none
BeforeFirst(s, at) == IF at = {} THEN s ELSE SubSeq(s, 1, Min(at) - 1)

\* the text of s before the first occurrence of a member of seps, and all of
\* s when it has none
Before(s, seps) ==
    BeforeFirst(s, {i \in 1..Len(s) : \E p \in seps : StartsWithAt(s, p, i)})

\* text[i..j] is a value of the key: the key ends right before it, it is not
\* empty, it holds no quote and a quote follows it
IsValueOf(key, text, i, j) ==
    /\ i > Len(key)
    /\ StartsWithAt(text, key, i - Len(key))
    /\ i <= j
    /\ j < Len(text)
    /\ text[j + 1] = "\""
    /\ \A k \in i..j : text[k] # "\""

\* where the values of the key start in the text
ValueStarts(key, text) ==
    {i \in 1..Len(text) : \E j \in i..Len(text) : IsValueOf(key, text, i, j)}

\* the value of the key that starts at text[i]
ValueAt(key, text, i) ==
    SubSeq(text, i, CHOOSE j \in i..Len(text) : IsValueOf(key, text, i, j))

\* the value that starts first among those starting at starts, or None when
\* there is none
FirstOf(key, text, starts) ==
    IF starts = {} THEN None ELSE ValueAt(key, text, Min(starts))

\* the first value of the key in the text, or None when it has no value
FirstValueOf(key, text) == FirstOf(key, text, ValueStarts(key, text))

\* the embed URL of a value of the page, and None when the page has none
EmbedOfValue(value) == IF value = None THEN None ELSE EmbedBase \o value

\* the embed URL of an id
EmbedOf(id) == EmbedBase \o id

\* the claim as it is stated: what a URL and a page without manifest resolve
\* to, the id of a watch URL ending at the next '&' only, the id of an embed
\* URL at the next '?' only, and any id making an embed URL
ResolvedAsStated(url, text) ==
    IF Contains(url, <<"/", "w", "a", "t", "c", "h", "?", "v", "=">>)
    THEN EmbedOf(Before(AfterFirst(url, <<"v", "=">>), {<<"&">>}))
    ELSE IF Contains(url, <<"/", "e", "m", "b", "e", "d", "/">>)
    THEN EmbedOf(Before(AfterFirst(url, <<"/", "e", "m", "b", "e", "d", "/">>), {<<"?">>}))
    ELSE IF Contains(url, <<"/", "c", "h", "a", "n", "n", "e", "l", "/">>) /\ Contains(url, <<"/", "l", "i", "v", "e">>)
    THEN EmbedOfValue(FirstValueOf(VideoIdKey, text))
    ELSE None

\* the manifest value of the page with its escaped ampersands made plain when
\* the page has one, and otherwise what the URL resolves to
ManifestOr(manifest, resolved) ==
    IF manifest # None THEN Replace(manifest, <<"\\", "u", "0", "0", "2", "6">>, <<"&">>) ELSE resolved

\* C11 as stated: after a successful fetch, the manifest value of the page
\* (with every escaped ampersand made '&') is returned whatever the URL; otherwise a
\* watch URL gives the embed URL of the text after its first 'v=' up to the
\* next '&', an embed URL that of the id before '?', a channel's live URL
\* that of the first videoId of the page, and every other case gives None.
C11_AsStated ==
    (call.op = "extract_youtube_m3u8" /\ call.response.kind = "ok") =>
        call.ret = ManifestOr(FirstValueOf(HlsKey, call.response.text),
                              ResolvedAsStated(call.arg, call.response.text))

\* the embed URL of an id that is not empty, and None for the empty id
EmbedOfNonEmpty(id) == IF id = <<>> THEN None ELSE EmbedBase \o id

\* what a URL and a page without manifest resolve to: the id of a watch URL
\* ends at the next 'v=' or '&', the id of an embed URL at the next '/embed/'
\* or '?', and an empty id gives None
Resolved(url, text) ==
    IF Contains(url, <<"/", "w", "a", "t", "c", "h", "?", "v", "=">>)
    THEN EmbedOfNonEmpty(Before(AfterFirst(url, <<"v", "=">>), {<<"v", "=">>, <<"&">>}))
    ELSE IF Contains(url, <<"/", "e", "m", "b", "e", "d", "/">>)
    THEN EmbedOfNonEmpty(Before(AfterFirst(url, <<"/", "e", "m", "b", "e", "d", "/">>), {<<"/", "e", "m", "b", "e", "d", "/">>, <<"?">>}))
    ELSE IF Contains(url, <<"/", "c", "h", "a", "n", "n", "e", "l", "/">>) /\ Contains(url, <<"/", "l", "i", "v", "e">>)
    THEN EmbedOfValue(FirstValueOf(VideoIdKey, text))
    ELSE None

\* C11, amended: after a successful fetch, the first non-empty manifest
\* value of the page (with every escaped ampersand made '&') is returned whatever the
\* URL; otherwise a watch URL gives the embed URL of the text after its
\* first 'v=' up to the next 'v=' or '&', an embed URL that of the text
\* after its first '/embed/' up to the next '/embed/' or '?', a channel's
\* live URL that of the first non-empty videoId of the page; an empty id
\* and every other case give None.
C11_ResolutionPriority ==
    (call.op = "extract_youtube_m3u8" /\ call.response.kind = "ok") =>
        call.ret = ManifestOr(FirstValueOf(HlsKey, call.response.text),
                              Resolved(call.arg, call.response.text))

\* C11 witness: the page of a watch URL held a manifest, and the manifest
\* came back with its escaped ampersands made plain.
C11_Witness ==
    /\ call.op = "extract_youtube_m3u8"
    /\ call.arg = <<"h", "t", "t", "p", "s", ":", "/", "/", "w", "w", "w", ".", "Y", "o", "u", "T", "u", "b", "e", ".", "c", "o", "m", "/", "w", "a", "t", "c", "h", "?", "v", "=", "a", "b">>
    /\ call.response = Answers(HlsKey \o <<"h", "t", "t", "p", "s", ":", "/", "/", "m", "/", "a", "?", "x", "=", "1", "\\", "u", "0", "0", "2", "6", "y", "=", "2", "\\", "u", "0", "0", "2", "6", "z">> \o <<"\"", ",">>)
    /\ call.ret = <<"h", "t", "t", "p", "s", ":", "/", "/", "m", "/", "a", "?", "x", "=", "1", "&", "y", "=", "2", "&", "z">>

-----------------------------------------------------------------------------
(* Properties of one scraper, under Spec *)

\* the channel has at least one non-empty source URL
HasSource(channel) ==
    /\ "sources" \in DOMAIN channel
    /\ \E i \in 1..Len(channel.sources) : Truthy(channel.sources[i][2])

\* C6: after the first scrape_all of a scraper the catalog holds exactly one
\* record for each configured channel that has a non-empty source URL, in
\* the order of the configuration; the channels without one leave no record
\* and do not stop the later ones.
C6_OneRecordPerChannelWithSource ==
    runs = 1 =>
        LET good == SelectSeq(channels, HasSource)
        IN  /\ Len(streams) = Len(good)
            /\ \A k \in 1..Len(good) :
                  /\ streams[k].name = good[k].name
                  /\ "id" \in DOMAIN good[k] => streams[k].id = good[k].id

\* C6 witness: a channel without sources came first, a channel with a source
\* after it, and the catalog holds the record of the second alone.
C6_Witness ==
    /\ runs = 1
    /\ Len(channels) = 2
    /\ ~HasSource(channels[1])
    /\ HasSource(channels[2])
    /\ Len(streams) = 1
    /\ streams[1].name = channels[2].name

\* the records without their updated_at
WithoutTime(ss) ==
    [k \in 1..Len(ss) |-> [f \in DOMAIN ss[k] \ {"updated_at"} |-> ss[k][f]]]

\* C7: whatever the number of scrape_all calls made on a scraper, with the
\* same configuration and the same answers of the web, the catalog holds the
\* records of the first call (updated_at aside).
C7_SecondCallSameRecords ==
    runs >= 1 =>
        WithoutTime(streams) = WithoutTime(ScrapeLoop(channels, web, [streams |-> <<>>, clock |-> 0]).streams)

\* the group-title of a record: the name configured for its genre, or the
\* genre key in title case when the genre or its name is not configured
GroupTitle(stream) ==
    IF stream.genre \in DOMAIN genres /\ "name" \in DOMAIN genres[stream.genre]
    THEN genres[stream.genre].name
    ELSE Title(stream.genre)

ExtinfLine(stream) ==
    <<"#", "E", "X", "T", "I", "N", "F", ":", "-", "1", " ", "t", "v", "g", "-", "i", "d", "=", "\"">> \o stream.id
    \o <<"\"", " ", "t", "v", "g", "-", "n", "a", "m", "e", "=", "\"">> \o stream.name
    \o <<"\"", " ", "t", "v", "g", "-", "l", "o", "g", "o", "=", "\"">> \o stream.logo
    \o <<"\"", " ", "g", "r", "o", "u", "p", "-", "t", "i", "t", "l", "e", "=", "\"">> \o GroupTitle(stream)
    \o <<"\"", ",">> \o stream.name

\* C9: the playlist is the line #EXTM3U followed by exactly two lines for
\* each record of the catalog it was written from, in catalog order: the
\* #EXTINF:-1 line with the record's id, name, logo and group-title, then
\* the record's url.
C9_PlaylistLines ==
    playlist # None =>
        LET catalog == streams_json.streams
            n == Len(catalog)
            lines == Split(playlist, <<"\n">>)
        IN  /\ Len(lines) = 2 * n + 2
            /\ lines[1] = <<"#", "E", "X", "T", "M", "3", "U">>
            /\ lines[2 * n + 2] = <<>>
            /\ \A k \in 1..n :
                  /\ lines[2 * k] = ExtinfLine(catalog[k])
                  /\ lines[2 * k + 1] = catalog[k].url

\* C9 witness: a playlist was written from a catalog with a record whose
\* genre has a configured name and a record whose genre is not configured.
C9_Witness ==
    /\ playlist # None
    /\ \E i, j \in 1..Len(streams_json.streams) :
          LET a == streams_json.streams[i]
              b == streams_json.streams[j]
          IN  /\ a.genre \in DOMAIN genres
              /\ "name" \in DOMAIN genres[a.genre]
              /\ b.genre \notin DOMAIN genres
              /\ GroupTitle(b) # b.genre

\* a configured source, a pair of its key and its URL, has a URL
HasUrl(src) == Truthy(src[2])

\* the keys of the configured sources of a channel that have a URL, in the
\* order of the configuration
ConfiguredKeys(channel) ==
    [i \in 1..Len(SelectSeq(channel.sources, HasUrl)) |->
        SelectSeq(channel.sources, HasUrl)[i][1]]

\* the keys of the sources of a record, in their order
RecordKeys(rec) == [i \in 1..Len(rec.sources) |-> rec.sources[i].key]

\* the record is as C12 says a record of the channel is
RecordOf(rec, channel) ==
    /\ rec.sources # <<>>
    /\ "sources" \in DOMAIN channel
    /\ RecordKeys(rec) = ConfiguredKeys(channel)
    /\ \A i \in 1..Len(rec.sources) :
          rec.sources[i].type = detect_source_type(rec.sources[i].url)
    /\ rec.url = rec.sources[1].url
    /\ rec.source_type = rec.sources[1].type

\* C12: in every record of the catalog 'sources' is not empty and holds one
\* entry for each configured source of the record's channel whose URL is not
\* empty, with the same keys in the same order; the 'type' of each entry is
\* detect_source_type of the entry's processed 'url'; and the record's 'url'
\* and 'source_type' are those of the first entry of 'sources'.
C12_RecordSources ==
    \A k \in 1..Len(streams) :
        /\ \E j \in 1..Len(channels) : channels[j].name = streams[k].name
        /\ \A j \in 1..Len(channels) :
              channels[j].name = streams[k].name => RecordOf(streams[k], channels[j])

\* C12 witness: the catalog holds the record of a channel whose first source
\* has no URL, with the second source alone, and the record of a channel whose
\* first source resolved to a manifest, typed as the manifest is and not as
\* the configured watch URL is.
C12_Witness ==
    /\ \E k \in 1..Len(streams) :
          /\ streams[k].name = <<"R", "o", "c", "k", " ", "T", "V">>
          /\ RecordKeys(streams[k]) = <<<<"b">>>>
          /\ streams[k].url = <<"h", "t", "t", "p", "s", ":", "/", "/", "m", "c", "a", "s", "t", "e", "r", ".", "t", "v", "/", "r">>
    /\ \E k \in 1..Len(streams) :
          /\ streams[k].name = <<"B", "B", "C", " ", "N", "e", "w", "s">>
          /\ RecordKeys(streams[k]) = <<<<"m", "a", "i", "n">>, <<"b", "a", "c", "k", "u", "p">>>>
          /\ streams[k].url = <<"h", "t", "t", "p", "s", ":", "/", "/", "m", "/", "l", "i", "v", "e", ".", "m", "3", "u", "8", "?", "a", "=", "1", "&", "b", "=", "2">>
          /\ streams[k].source_type = DIRECT_M3U8
          /\ streams[k].source_type
                # detect_source_type(<<"h", "t", "t", "p", "s", ":", "/", "/", "w", "w", "w", ".", "y", "o", "u", "t", "u", "b", "e", ".", "c", "o", "m", "/", "w", "a", "t", "c", "h", "?", "v", "=", "a", "b", "&", "t", "=", "1">>)

-----------------------------------------------------------------------------
(* Properties of one converter, under SpecConv *)

\* C8: an add_anime call whose entry lacks 'id', 'name' or 'type' returns
\* False and leaves anime_data and movie_data as they were, and so does an
\* add_movie call whose entry lacks 'id', 'name', 'type' or 'telegram_link'.
C8_RequiredFields ==
    [][ /\ (/\ ret'.op = "add_anime"
            /\ \E f \in {"id", "name", "type"} : f \notin DOMAIN ret'.arg)
           => /\ ret'.value = FALSE
              /\ anime_data' = anime_data
              /\ movie_data' = movie_data
        /\ (/\ ret'.op = "add_movie"
            /\ \E f \in {"id", "name", "type", "telegram_link"} : f \notin DOMAIN ret'.arg)
           => /\ ret'.value = FALSE
              /\ anime_data' = anime_data
              /\ movie_data' = movie_data ]_vars

\* C8 witness: with an entry already in each list, add_movie was called with
\* an entry that has 'id', 'name' and 'type' and no 'telegram_link', and
\* returned False.
C8_Witness ==
    /\ ret.op = "add_movie"
    /\ {"id", "name", "type"} \subseteq DOMAIN ret.arg
    /\ "telegram_link" \notin DOMAIN ret.arg
    /\ ret.value = FALSE
    /\ Len(anime_data) = 1

====
